---- MODULE Spec2Model ----
(***************************************************************************)
(* A model of aiosmtp's SmtpProtocol (src/aiosmtp/protocol.py): the        *)
(* connection lifecycle, the session loop run(), the command dispatcher    *)
(* handle_command() and the ten command handlers, with the transaction     *)
(* state they read and write.                                              *)
(*                                                                         *)
(* Python values are modelled as follows.                                  *)
(*   None / optional   the empty tuple <<>> is None, <<x>> is the value x  *)
(*   bytes             a token (a TLA+ string) or a record describing the  *)
(*                     text's structure (see ArgText)                      *)
(*   truthiness        Truthy* operators: None, b'' and 0 are falsy        *)
(*   an exception      the variable raised names the exception that left   *)
(*                     the last step, "none" when nothing was raised       *)
(***************************************************************************)
EXTENDS Integers, Sequences, FiniteSets, TLC

\* ------------------------------------------------------------------ bounds

\* The max_size the constructor is given when it is given one; the SIZE=
\* values tried reach one beyond it.
MaxSizeArg == 2
\* Recipients accepted per transaction in the model (the code has no cap).
MaxRcpts == 2
\* Longest data block handed over by the stream reader.
MaxDataLen == 1
MaxInFlight == 1

\* --------------------------------------------------------------- constants

STATE_CONNECTING == 0
STATE_OPEN == 1
STATE_CLOSED == 2

READ_MODE_COMMAND == 0
READ_MODE_DATA == 1

None == <<>>
Some(x) == <<x>>

\* bool(x) of an optional int: None and 0 are falsy.
TruthyInt(o) == o # None /\ o[1] # 0

\* ------------------------------------------------------------------ inputs

\* Host names and mailbox addresses a client may send.
Hosts == {"relay"}
Addrs == {"a@b", "c@d"}

\* The keys of the dispatch table.
COMMANDS ==
    {"HELO", "EHLO", "VRFY", "EXPN", "RSET", "MAIL", "RCPT", "DATA", "NOOP", "QUIT"}

\* Keyword tokens as they arrive on the wire: table keys, lower-case
\* spellings of some, a keyword outside the table and the empty keyword.
Keywords == COMMANDS \cup {"rset", "mail", "BOGUS", ""}

\* bytes.upper() on the keyword tokens.
Upper(k) ==
    CASE k = "rset" -> "RSET"
      [] k = "mail" -> "MAIL"
      [] k = "from:" -> "FROM:"
      [] k = "size" -> "SIZE"
      [] OTHER -> k

\* One parameter token of a MAIL/RCPT line: "k=v" when eq, the bare token k
\* otherwise; num tells whether v is a decimal literal (then n is its value).
Param(k, eq, num, n) == [k |-> k, eq |-> eq, num |-> num, n |-> n]

\* The parameter texts tried on MAIL: no parameter, SIZE= with 0, with the
\* configured maximum and with one more, a lower-case key, a value that is
\* no number, an unknown key, a token without '=', and SIZE with another key.
ParamLists ==
    {<<>>}
    \cup {<<Param("SIZE", TRUE, TRUE, n)>> : n \in {0, MaxSizeArg, MaxSizeArg + 1}}
    \cup {<<Param("size", TRUE, TRUE, 1)>>,
          <<Param("SIZE", TRUE, FALSE, 0)>>,
          <<Param("FOO", TRUE, TRUE, 1)>>,
          <<Param("FOO", FALSE, FALSE, 0)>>,
          <<Param("SIZE", TRUE, TRUE, 1), Param("FOO", TRUE, TRUE, 1)>>}

\* The text after the keyword, already stripped.  t is its shape:
\*   "empty"  b''
\*   "word"   one token w without a space and without a FROM:/TO: prefix
\*   "words"  the token w, a space and more text
\*   "path"   kw immediately followed by an address (form "angle" <a>,
\*            "bare" a, or "bad": text the address parser cannot parse) and,
\*            after a space, the parameter tokens of params
ArgText(t, w, kw, form, params) ==
    [t |-> t, w |-> w, kw |-> kw, form |-> form, params |-> params]

EmptyArg == ArgText("empty", "", "", "", <<>>)
WordArg(w) == ArgText("word", w, "", "", <<>>)
WordsArg(w) == ArgText("words", w, "", "", <<>>)
PathArg(kw, form, a, params) == ArgText("path", a, kw, form, params)
BadPath(kw) == ArgText("path", "", kw, "bad", <<>>)

\* A command line: lead, the line starts with a space; kw, its first token;
\* sp, a space follows that token; arg, the stripped text after that space.
Line(lead, kw, sp, arg) == [lead |-> lead, kw |-> kw, sp |-> sp, arg |-> arg]

HostArgs == {EmptyArg, WordArg("relay"), WordsArg("relay")}
VrfyArgs == {EmptyArg} \cup {WordArg(a) : a \in Addrs}
MailArgs ==
    {PathArg("FROM:", "angle", "a@b", p) : p \in ParamLists}
    \cup {PathArg("from:", "bare", "c@d", <<>>),
          PathArg("TO:", "angle", "a@b", <<>>),
          BadPath("FROM:"), WordArg("a@b"), EmptyArg}
RcptArgs ==
    {PathArg("TO:", "angle", a, <<>>) : a \in Addrs}
    \cup {PathArg("TO:", "bare", "c@d", <<Param("FOO", TRUE, TRUE, 1)>>),
          PathArg("FROM:", "angle", "a@b", <<>>),
          BadPath("TO:"), EmptyArg}

\* The lines a client sends in the model.
Lines ==
    {Line(FALSE, k, FALSE, EmptyArg) : k \in Keywords}
    \cup {Line(TRUE, k, FALSE, EmptyArg) : k \in {"NOOP", "BOGUS"}}
    \cup {Line(TRUE, "NOOP", TRUE, WordsArg("relay"))}
    \cup {Line(FALSE, k, TRUE, a) : k \in {"HELO", "EHLO"}, a \in HostArgs}
    \cup {Line(FALSE, "VRFY", TRUE, a) : a \in VrfyArgs}
    \cup {Line(FALSE, k, TRUE, WordArg("relay")) :
            k \in {"EXPN", "RSET", "DATA", "NOOP", "QUIT", "BOGUS"}}
    \cup {Line(FALSE, "MAIL", TRUE, a) : a \in MailArgs}
    \cup {Line(FALSE, "RCPT", TRUE, a) : a \in RcptArgs}

\* bool(arg) of the optional argument: None and b'' are falsy.
TruthyArg(arg) == arg # None /\ arg[1].t # "empty"

\* b' ' in text
HasSpace(a) == a.t = "words" \/ (a.t = "path" /\ a.params # <<>>)


\* ------------------------------------------------------------------- state

VARIABLES
    max_size_arg,        \* the max_size argument of __init__
    state,               \* self._state
    connection_open,     \* self.connection_open.done()
    connection_closed,   \* self.connection_closed.done()
    read_mode,           \* self._read_mode
    helo,                \* self._helo
    sender,              \* self._sender
    recipients,          \* self._recipients
    allowed_recipients,  \* self._allowed_recipients
    is_esmtp,            \* self._is_esmtp
    max_size,            \* self._max_size
    message_size,        \* self._message_size
    recipients_truncated,\* self._recipients_truncated
    pc,                  \* where the worker task run() stands
    last,                \* the event the last step consumed
    out,                 \* the writer operations of the last step, in order
    raised,              \* the exception that left the last step, or "none"
    verify_called,       \* the last step called handler.verify
    verify_result,       \* what that call returned (None without a call)
    ever_verified,       \* handler.verify has resolved an address on this connection
    in_flight,           \* message_received tasks launched and not yet finished
    launched,            \* the delivery the last step launched, if any
    accepted             \* commands answered 250/354 since the last reset_state

session ==
    <<read_mode, helo, sender, recipients, allowed_recipients, is_esmtp,
      max_size, message_size, recipients_truncated>>

vars ==
    <<max_size_arg, state, connection_open, connection_closed, session, pc,
      last, out, raised, verify_called, verify_result, ever_verified,
      in_flight, launched, accepted>>

\* --------------------------------------------------------------- responses

\* One response line: the three-digit code, more = TRUE for a continuation
\* line ("250-..."), the text, and n, the number printed after it (SIZE).
RLine(code, more, text, n) == [code |-> code, more |-> more, text |-> text, n |-> n]

\* A bytes value handed to send(): its lines joined by CRLF, term = it
\* already ends with CRLF.
Msg(code, text) == [lines |-> <<RLine(code, FALSE, text, 0)>>, term |-> FALSE]

\* Writer operations.
WriteOp(lines, term) == [op |-> "write", lines |-> lines, term |-> term]
PlainOp(op) == [op |-> op, lines |-> <<>>, term |-> FALSE]

\* send(): append the line terminator when missing, write, drain.
send(m) == <<WriteOp(m.lines, TRUE), PlainOp("drain")>>

\* The event records kept in last.
Event(op, cmd, arg, data) == [op |-> op, cmd |-> cmd, arg |-> arg, data |-> data]

\* -------------------------------------------------------------- reset_state

\* reset_state leaving the greeting in place.
reset_state_keeps_helo ==
    [read_mode |-> READ_MODE_COMMAND,
     helo |-> helo,
     sender |-> None,
     recipients |-> <<>>,
     allowed_recipients |-> {},
     is_esmtp |-> is_esmtp,
     max_size |-> None,
     message_size |-> None,
     recipients_truncated |-> FALSE]

\* reset_state leaving the verified addresses in place.
reset_state_keeps_allowed ==
    [read_mode |-> READ_MODE_COMMAND,
     helo |-> None,
     sender |-> None,
     recipients |-> <<>>,
     allowed_recipients |-> allowed_recipients,
     is_esmtp |-> FALSE,
     max_size |-> None,
     message_size |-> None,
     recipients_truncated |-> FALSE]

\* The values reset_state assigns.
reset_state ==
    [read_mode |-> READ_MODE_COMMAND,
     helo |-> None,
     sender |-> None,
     recipients |-> <<>>,
     allowed_recipients |-> {},
     is_esmtp |-> FALSE,
     max_size |-> None,
     message_size |-> None,
     recipients_truncated |-> FALSE]

\* The values __init__ leaves in the same fields: max_size is assigned from
\* the argument and assigned None again nine lines further down.
init_state(arg) ==
    LET line35 == [max_size |-> arg]
        line45 == [line35 EXCEPT !.max_size = None]
    IN [read_mode |-> READ_MODE_COMMAND,
        helo |-> None,
        sender |-> None,
        recipients |-> <<>>,
        allowed_recipients |-> {},
        is_esmtp |-> FALSE,
        max_size |-> line45.max_size,
        message_size |-> None,
        recipients_truncated |-> FALSE]

SetSession(r) ==
    /\ read_mode' = r.read_mode
    /\ helo' = r.helo
    /\ sender' = r.sender
    /\ recipients' = r.recipients
    /\ allowed_recipients' = r.allowed_recipients
    /\ is_esmtp' = r.is_esmtp
    /\ max_size' = r.max_size
    /\ message_size' = r.message_size
    /\ recipients_truncated' = r.recipients_truncated

Init ==
    /\ max_size_arg \in {None, Some(MaxSizeArg)}
    /\ state = STATE_CONNECTING
    /\ connection_open = FALSE
    /\ connection_closed = FALSE
    /\ read_mode = init_state(max_size_arg).read_mode
    /\ helo = init_state(max_size_arg).helo
    /\ sender = init_state(max_size_arg).sender
    /\ recipients = init_state(max_size_arg).recipients
    /\ allowed_recipients = init_state(max_size_arg).allowed_recipients
    /\ is_esmtp = init_state(max_size_arg).is_esmtp
    /\ max_size = init_state(max_size_arg).max_size
    /\ message_size = init_state(max_size_arg).message_size
    /\ recipients_truncated = init_state(max_size_arg).recipients_truncated
    /\ pc = "await_open"
    /\ last = Event("init", "", None, 0)
    /\ out = <<>>
    /\ raised = "none"
    /\ verify_called = FALSE
    /\ verify_result = None
    /\ ever_verified = FALSE
    /\ in_flight = 0
    /\ launched = None
    /\ accepted = {}


\* ---------------------------------------------------------- pure helpers

\* handle_command's split of the raw line into keyword and argument: the
\* line is cut at its first space when that space is not the first byte;
\* otherwise the whole stripped line is the keyword and arg is None.  A
\* stripped line that still holds a space is no single token: "?".
split_line(l) ==
    IF ~l.lead /\ l.sp /\ l.kw # ""
    THEN [cmd |-> l.kw, arg |-> Some(l.arg)]
    ELSE IF l.sp /\ l.arg.t # "empty"
         THEN [cmd |-> "?", arg |-> None]
         ELSE [cmd |-> l.kw, arg |-> None]

\* strip_keyword: the text after the keyword when the line starts with it
\* (compared in upper case), b'' otherwise.
strip_keyword(a, keyword) ==
    IF a.t = "path" /\ Upper(a.kw) = Upper(keyword)
    THEN ArgText("addr", a.w, "", a.form, a.params)
    ELSE EmptyArg

\* parse_addr: (b'', b'') for an empty text; else the address parser's
\* result.  On text it cannot parse the parser either returns no address
\* (parse_addr then returns None and the rest) or raises: bad says which.
parse_addr(maybe_addr, bad) ==
    IF maybe_addr.t = "empty"
    THEN [exc |-> "none", addr |-> Some(""), params |-> <<>>]
    ELSE IF maybe_addr.form = "bad"
         THEN IF bad = "raise"
              THEN [exc |-> "HeaderParseError", addr |-> None, params |-> <<>>]
              ELSE [exc |-> "none", addr |-> None, params |-> <<>>]
         ELSE [exc |-> "none", addr |-> Some(maybe_addr.w),
               params |-> maybe_addr.params]

\* bool(addr) of parse_addr's address: None and b'' are falsy.
TruthyAddr(o) == o # None /\ o[1] # ""

\* split_command (used by EHLO): strips the argument and cuts it at its
\* first space.  None has no strip(); the text after the space is taken as
\* arg[ix + 1], an int, which has no strip() either.
split_command(arg) ==
    IF arg = None
    THEN [exc |-> "AttributeError", head |-> None]
    ELSE IF HasSpace(arg[1])
         THEN [exc |-> "AttributeError", head |-> None]
         ELSE [exc |-> "none", head |-> arg]

\* parse_mail_params: None (here: ok = FALSE) as soon as one of the
\* space-separated tokens holds no '='.
parse_mail_params(params) ==
    [ok |-> \A i \in 1..Len(params) : params[i].eq, params |-> params]

RECURSIVE mail_size_loop(_, _, _, _, _)
\* The loop of mail() over the parsed parameters, from index i on: ms is
\* self._message_size so far, left the indices not deleted from params.
\* Result: how the loop ended ("552": the size reply was sent and mail
\* returned; "end": the loop ran out or hit its break), message_size, left.
mail_size_loop(params, i, ms, left, limit) ==
    IF i > Len(params)
    THEN [how |-> "end", message_size |-> ms, left |-> left]
    ELSE IF Upper(params[i].k) # "SIZE"
         THEN mail_size_loop(params, i + 1, ms, left, limit)
         ELSE IF ~params[i].num
              THEN [how |-> "end", message_size |-> ms, left |-> left]
              ELSE IF TruthyInt(limit) /\ params[i].n >= limit[1]
                   THEN [how |-> "552", message_size |-> ms, left |-> left]
                   ELSE mail_size_loop(params, i + 1, Some(params[i].n),
                                       left \ {i}, limit)

\* The stream reader's read_data(max_len): it fails with TooMuchDataError
\* when a limit is given and the block is longer.
read_data_too_much(max_len, data) == max_len # None /\ data > max_len[1]


\* ---------------------------------------------------------------- handlers

\* What a handler leaves of a step that calls neither verify nor delivery.
Quiet ==
    /\ verify_called' = FALSE
    /\ verify_result' = None
    /\ launched' = None
    /\ UNCHANGED <<ever_verified, in_flight>>

\* A handler path that sends one line and resets the transaction.
Reply_with_reset(code, text) ==
    /\ out' = send(Msg(code, text))
    /\ raised' = "none"
    /\ SetSession(reset_state)
    /\ accepted' = {}

\* A handler path that sends one line and changes nothing.
Reply(code, text) ==
    /\ out' = send(Msg(code, text))
    /\ raised' = "none"
    /\ UNCHANGED <<session, accepted>>

\* An exception leaving the handler before anything is written.
Raise(exc) ==
    /\ out' = <<>>
    /\ raised' = exc
    /\ UNCHANGED <<session, accepted>>

helo_cmd(arg) ==
    /\ Quiet
    /\ IF TruthyArg(helo)
       THEN Reply(503, "Duplicate HELO/EHLO")
       ELSE IF ~TruthyArg(arg)
            THEN Reply(501, "Syntax: HELO hostname")
            ELSE /\ is_esmtp' = FALSE
                 /\ helo' = arg
                 /\ out' = send(Msg(250, "fqdn"))
                 /\ raised' = "none"
                 /\ accepted' = accepted \cup {"HELO"}
                 /\ UNCHANGED <<read_mode, sender, recipients, allowed_recipients,
                                max_size, message_size, recipients_truncated>>

\* The reply lines of a successful EHLO.
ehlo_lines ==
    <<RLine(250, TRUE, "fqdn", 0)>>
    \o (IF TruthyInt(max_size)
        THEN <<RLine(250, TRUE, "SIZE", max_size[1])>>
        ELSE <<>>)
    \o <<RLine(250, FALSE, "HELP", 0)>>

ehlo(arg) ==
    /\ Quiet
    /\ IF TruthyArg(helo)
       THEN Reply(503, "Duplicate HELO/EHLO")
       ELSE LET sc == split_command(arg)
            IN IF sc.exc # "none"
               THEN Raise(sc.exc)
               ELSE IF ~TruthyArg(sc.head)
                    THEN Reply(501, "Syntax: EHLO hostname")
                    ELSE /\ is_esmtp' = TRUE
                         /\ helo' = sc.head
                         /\ out' = send([lines |-> ehlo_lines, term |-> FALSE])
                         /\ raised' = "none"
                         /\ accepted' = accepted \cup {"HELO"}
                         /\ UNCHANGED <<read_mode, sender, recipients,
                                        allowed_recipients, max_size,
                                        message_size, recipients_truncated>>

\* arg in self._allowed_recipients
in_allowed(arg) == arg[1].t = "word" /\ arg[1].w \in allowed_recipients

\* What handler.verify may return: None or a canonical address.
VerifyResults == {None} \cup {Some(a) : a \in Addrs}

vrfy(arg) ==
    /\ launched' = None
    /\ UNCHANGED in_flight
    /\ raised' = "none"
    /\ UNCHANGED accepted
    /\ IF arg = None
       THEN \* written without terminator and without drain
            /\ out' = <<WriteOp(<<RLine(501, FALSE, "Syntax: VRFY <", 0)>>, FALSE)>>
            /\ verify_called' = FALSE
            /\ verify_result' = None
            /\ UNCHANGED <<session, ever_verified>>
       ELSE IF in_allowed(arg)
            THEN /\ out' = send(Msg(252, "Cannot verify user"))
                 /\ verify_called' = FALSE
                 /\ verify_result' = None
                 /\ UNCHANGED <<session, ever_verified>>
            ELSE \E result \in VerifyResults :
                    /\ verify_called' = TRUE
                    /\ verify_result' = result
                    /\ ever_verified' = (ever_verified \/ TruthyAddr(result))
                    \* send(...) is called but never awaited: nothing is written
                    /\ out' = <<>>
                    /\ allowed_recipients' =
                          IF TruthyAddr(result)
                          THEN allowed_recipients \cup {result[1]}
                          ELSE allowed_recipients
                    /\ UNCHANGED <<read_mode, helo, sender, recipients, is_esmtp,
                                   max_size, message_size, recipients_truncated>>

expn(arg) ==
    /\ Quiet
    /\ Reply(502, "Unimplemented")

rset(arg) ==
    /\ Quiet
    /\ SetSession(reset_state)
    /\ accepted' = {}
    /\ out' = send(Msg(250, "Ok"))
    /\ raised' = "none"

\* mail()'s checks without the one for a greeting.
mail_precheck_no_helo(arg) ==
    IF ~TruthyArg(arg) THEN <<501, "Syntax: MAIL FROM:<address>">>
    ELSE IF TruthyAddr(sender) THEN <<503, "Error: Nested MAIL command">>
    ELSE <<>>

\* The checks mail() makes before it parses: <<code, text>> of the refusal,
\* <<>> when all pass.
mail_precheck(arg) ==
    IF ~TruthyArg(arg) THEN <<501, "Syntax: MAIL FROM:<address>">>
    ELSE IF ~TruthyArg(helo) THEN <<503, "Error: Send HELO first">>
    ELSE IF TruthyAddr(sender) THEN <<503, "Error: Nested MAIL command">>
    ELSE <<>>

mail(arg) ==
    /\ Quiet
    /\ IF mail_precheck(arg) # <<>>
       THEN Reply(mail_precheck(arg)[1], mail_precheck(arg)[2])
       ELSE \E bad \in {"none", "raise"} :
            LET pa == parse_addr(strip_keyword(arg[1], "FROM:"), bad)
                pm == parse_mail_params(pa.params)
                lp == mail_size_loop(pa.params, 1, message_size,
                                     1..Len(pa.params), max_size)
            IN IF pa.exc # "none"
               THEN Raise(pa.exc)
               ELSE IF ~TruthyAddr(pa.addr)
               THEN Reply(501, "Syntax: MAIL FROM: <address>")
               ELSE IF ~is_esmtp /\ pa.params # <<>>
               THEN Reply(501, "Syntax: MAIL FROM: <address>")
               ELSE IF pa.params # <<>> /\ ~pm.ok
               THEN Reply(501, "Syntax: MAIL FROM: <address>")
               ELSE /\ raised' = "none"
                    /\ message_size' = lp.message_size
                    /\ UNCHANGED <<read_mode, helo, recipients, allowed_recipients,
                                   is_esmtp, max_size, recipients_truncated>>
                    /\ IF lp.how = "552"
                       THEN /\ out' = send(Msg(552, "Message size exceeds fixed maximium message size"))
                            /\ UNCHANGED <<sender, accepted>>
                       ELSE IF lp.left # {}
                       THEN /\ out' = send(Msg(555, "Unrecognized extension"))
                            /\ UNCHANGED <<sender, accepted>>
                       ELSE /\ sender' = pa.addr
                            /\ out' = send(Msg(250, "Ok"))
                            /\ accepted' = accepted \cup {"MAIL"}

\* rcpt()'s checks without the one for a sender.
rcpt_precheck_no_mail(arg) ==
    IF ~TruthyArg(helo) THEN <<503, "Error: Send HELO first">>
    ELSE IF ~TruthyArg(arg) THEN <<501, "Syntax: RCPT <address>">>
    ELSE <<>>

\* The checks rcpt() makes before it parses.
rcpt_precheck(arg) ==
    IF ~TruthyArg(helo) THEN <<503, "Error: Send HELO first">>
    ELSE IF ~TruthyAddr(sender) THEN <<503, "Error: Send MAIL first">>
    ELSE IF ~TruthyArg(arg) THEN <<501, "Syntax: RCPT <address>">>
    ELSE <<>>

\* A channel check that compares the declared size, multiplied by the
\* number of recipients, with the declared size.
channel_limit_exceeded_by_declared(nrecips) ==
    /\ TruthyInt(message_size)
    /\ message_size[1] < message_size[1] * nrecips

\* rcpt()'s channel check: both sizes set and max_size <= max_size * nrecips.
channel_limit_exceeded(nrecips) ==
    /\ TruthyInt(message_size)
    /\ TruthyInt(max_size)
    /\ max_size[1] <= max_size[1] * nrecips

rcpt(arg) ==
    /\ Quiet
    /\ IF rcpt_precheck(arg) # <<>>
       THEN Reply(rcpt_precheck(arg)[1], rcpt_precheck(arg)[2])
       ELSE \E bad \in {"none", "raise"} :
            LET pa == parse_addr(strip_keyword(arg[1], "TO:"), bad)
                nrecips == Len(recipients) + 1
            IN IF pa.exc # "none"
               THEN Raise(pa.exc)
               ELSE IF ~TruthyAddr(pa.addr)
               THEN Reply(501, "Syntax: RCPT <address>")
               ELSE IF pa.params # <<>>
               THEN Reply(555, "Unrecognized extension")
               ELSE IF channel_limit_exceeded(nrecips)
               THEN /\ recipients_truncated' = TRUE
                    /\ out' = send(Msg(552, "Channel size limit exceeded"))
                    /\ raised' = "none"
                    /\ UNCHANGED <<read_mode, helo, sender, recipients,
                                   allowed_recipients, is_esmtp, max_size,
                                   message_size, accepted>>
               ELSE /\ Len(recipients) < MaxRcpts
                    /\ recipients' = Append(recipients, pa.addr[1])
                    /\ out' = send(Msg(250, "Ok"))
                    /\ raised' = "none"
                    /\ UNCHANGED <<read_mode, helo, sender, allowed_recipients,
                                   is_esmtp, max_size, message_size,
                                   recipients_truncated, accepted>>

\* data()'s checks without the one for a recipient.
data_precheck_no_rcpt(arg) ==
    IF TruthyArg(arg) THEN <<501, "Syntax: Data">>
    ELSE IF ~TruthyArg(helo) THEN <<503, "Error: Send HELO first">>
    ELSE IF ~TruthyAddr(sender) THEN <<503, "Error: Send MAIL first">>
    ELSE <<>>

\* The checks data() makes before it switches the read mode.
data_precheck(arg) ==
    IF TruthyArg(arg) THEN <<501, "Syntax: Data">>
    ELSE IF ~TruthyArg(helo) THEN <<503, "Error: Send HELO first">>
    ELSE IF ~TruthyAddr(sender) THEN <<503, "Error: Send MAIL first">>
    ELSE IF recipients = <<>> THEN <<503, "Error: Need RCPT command">>
    ELSE <<>>

data(arg) ==
    /\ Quiet
    /\ IF data_precheck(arg) # <<>>
       THEN Reply(data_precheck(arg)[1], data_precheck(arg)[2])
       ELSE /\ read_mode' = READ_MODE_DATA
            /\ out' = send(Msg(354, "End data with <CRLF>.<CRLF>"))
            /\ raised' = "none"
            /\ accepted' = accepted \cup {"DATA"}
            /\ UNCHANGED <<helo, sender, recipients, allowed_recipients, is_esmtp,
                           max_size, message_size, recipients_truncated>>

noop(arg) ==
    /\ Quiet
    /\ IF TruthyArg(arg)
       THEN Reply(501, "Syntax: NOOP")
       ELSE Reply(250, "Ok")

\* quit() up to its call of close(): the 221 line is sent; the worker then
\* stands before close() (pc = "quit_close").
quit(arg) ==
    /\ Quiet
    /\ IF TruthyArg(arg)
       THEN Reply(501, "Syntax: QUIT")
       ELSE Reply(221, "Ok")

\* close(): end-of-stream when the transport can, then the writer's close
\* (errors of both are swallowed), then connection_closed.set_result(None),
\* which raises InvalidStateError on a future that is already done.
close ==
    /\ \E eof \in BOOLEAN :
          out' = (IF eof THEN <<PlainOp("write_eof")>> ELSE <<>>)
                 \o <<PlainOp("close")>>
    /\ IF connection_closed
       THEN raised' = "InvalidStateError" /\ UNCHANGED connection_closed
       ELSE raised' = "none" /\ connection_closed' = TRUE

\* The arguments of message_received as if reset_state had run before the
\* hand-off.
delivery_args_after_reset(d) == [sender |-> None, recipients |-> <<>>, data |-> d]

\* The arguments handle_data passes to handler.message_received.
delivery_args(d) == [sender |-> sender, recipients |-> recipients, data |-> d]

\* handle_data(): the size re-check, the delivery launched without being
\* awaited, then reset_state and the reply.
handle_data(d) ==
    /\ verify_called' = FALSE
    /\ verify_result' = None
    /\ UNCHANGED ever_verified
    /\ raised' = "none"
    /\ IF TruthyInt(max_size) /\ d >= max_size[1]
       THEN /\ out' = send(Msg(522, "Message exceeds fixed maximum size"))
            /\ launched' = None
            /\ UNCHANGED <<session, accepted, in_flight>>
       ELSE /\ in_flight < MaxInFlight
            /\ launched' = Some(delivery_args(d))
            /\ in_flight' = in_flight + 1
            /\ out' = send(Msg(250, IF recipients_truncated
                                    THEN "Some recipients ok" ELSE "Ok"))
            /\ SetSession(reset_state)
            /\ accepted' = {}

\* handle_command(): the keyword is looked up in COMMANDS with [], which
\* raises KeyError for a key outside the table; the method found is awaited.
handle_command(cmd, arg) ==
    CASE cmd = "HELO" -> helo_cmd(arg)
      [] cmd = "EHLO" -> ehlo(arg)
      [] cmd = "VRFY" -> vrfy(arg)
      [] cmd = "EXPN" -> expn(arg)
      [] cmd = "RSET" -> rset(arg)
      [] cmd = "MAIL" -> mail(arg)
      [] cmd = "RCPT" -> rcpt(arg)
      [] cmd = "DATA" -> data(arg)
      [] cmd = "NOOP" -> noop(arg)
      [] cmd = "QUIT" -> quit(arg)
      [] OTHER -> Quiet /\ Raise("KeyError")


\* -------------------------------------------------- lifecycle and the loop

NoEvent(op) == Event(op, "", None, 0)

\* client_connected(): the stream pair is ready.
client_connected ==
    /\ state = STATE_CONNECTING
    /\ state' = STATE_OPEN
    /\ connection_open' = TRUE
    /\ last' = NoEvent("client_connected")
    /\ out' = <<>>
    /\ raised' = "none"
    /\ Quiet
    /\ UNCHANGED <<max_size_arg, connection_closed, session, pc, accepted>>

\* connection_lost(): called by the event loop, once, while the worker is
\* suspended (or after it ended).  Its set_result raises on a future that
\* close() has completed already; the exception stays in the callback.
connection_lost ==
    /\ state = STATE_OPEN
    /\ state' = STATE_CLOSED
    /\ IF connection_closed
       THEN raised' = "InvalidStateError" /\ UNCHANGED connection_closed
       ELSE raised' = "none" /\ connection_closed' = TRUE
    /\ last' = NoEvent("connection_lost")
    /\ out' = <<>>
    /\ Quiet
    /\ UNCHANGED <<max_size_arg, connection_open, session, pc, accepted>>

\* run(), after connection_open: the 220 greeting.
run_greet ==
    /\ pc = "await_open"
    /\ connection_open
    /\ pc' = "loop"
    /\ last' = NoEvent("greet")
    /\ out' = send(Msg(220, "fqdn ESMTP"))
    /\ raised' = "none"
    /\ Quiet
    /\ UNCHANGED <<max_size_arg, state, connection_open, connection_closed,
                   session, accepted>>

\* read_command(), a line within the length limit: handle_command(line).
read_command ==
    /\ pc = "loop"
    /\ ~connection_closed
    /\ read_mode = READ_MODE_COMMAND
    /\ \E l \in Lines :
          LET c == split_line(l)
              cmd == Upper(c.cmd)
          IN /\ last' = Event("command", cmd, c.arg, 0)
             /\ handle_command(cmd, c.arg)
             /\ pc' = IF raised' # "none" THEN "failed"
                      ELSE IF cmd = "QUIT" /\ ~TruthyArg(c.arg) THEN "quit_close"
                      ELSE "loop"
    /\ UNCHANGED <<max_size_arg, state, connection_open, connection_closed>>

\* read_command(), the reader raising TooMuchDataError.
read_command_too_long ==
    /\ pc = "loop"
    /\ ~connection_closed
    /\ read_mode = READ_MODE_COMMAND
    /\ last' = NoEvent("line_too_long")
    /\ Quiet
    /\ Reply(500, "Line too long")
    /\ UNCHANGED <<max_size_arg, state, connection_open, connection_closed, pc>>

\* read_data(): one data block, or the reader's TooMuchDataError.
read_data ==
    /\ pc = "loop"
    /\ ~connection_closed
    /\ read_mode = READ_MODE_DATA
    /\ \E d \in 0..MaxDataLen :
          /\ last' = Event("data", "", None, d)
          /\ IF read_data_too_much(max_size, d)
             THEN Quiet /\ Reply(552, "Message exceeds fixed maximum size")
             ELSE handle_data(d)
    /\ UNCHANGED <<max_size_arg, state, connection_open, connection_closed, pc>>

\* read_data(), the reader raising TooMuchDataError at its own length
\* limit (max_len is None): the except branch sends 552 and returns.
read_data_too_long ==
    /\ pc = "loop"
    /\ ~connection_closed
    /\ read_mode = READ_MODE_DATA
    /\ last' = NoEvent("data_too_long")
    /\ Quiet
    /\ Reply(552, "Message exceeds fixed maximum size")
    /\ UNCHANGED <<max_size_arg, state, connection_open, connection_closed, pc>>

\* What a step of a launched message_received task leaves alone: it
\* shares nothing with the session but the arguments it was given.
delivery_frame ==
    /\ in_flight > 0
    /\ in_flight' = in_flight - 1
    /\ out' = <<>>
    /\ verify_called' = FALSE
    /\ verify_result' = None
    /\ launched' = None
    /\ UNCHANGED <<max_size_arg, state, connection_open, connection_closed,
                   session, pc, accepted, ever_verified>>

\* A launched message_received task returns.
message_received_done ==
    /\ delivery_frame
    /\ last' = NoEvent("delivery_done")
    /\ raised' = "none"

\* A launched message_received task raises; nothing awaits the task, so
\* the exception stays in it.
message_received_failed ==
    /\ delivery_frame
    /\ last' = NoEvent("delivery_failed")
    /\ raised' = "Exception"

\* quit(), its close() after the 221 line.
quit_close ==
    /\ pc = "quit_close"
    /\ close
    /\ pc' = IF raised' # "none" THEN "failed" ELSE "loop"
    /\ last' = NoEvent("quit_close")
    /\ Quiet
    /\ UNCHANGED <<max_size_arg, state, connection_open, session, accepted>>

\* run(), the loop left because connection_closed is done: close().
run_close ==
    /\ pc = "loop"
    /\ connection_closed
    /\ close
    /\ pc' = IF raised' # "none" THEN "failed" ELSE "done"
    /\ last' = NoEvent("run_close")
    /\ Quiet
    /\ UNCHANGED <<max_size_arg, state, connection_open, session, accepted>>

\* run() without its except clause: the CancelledError leaves run().
run_cancelled_propagates ==
    /\ pc = "loop"
    /\ pc' = "failed"
    /\ out' = <<>>
    /\ raised' = "CancelledError"
    /\ last' = NoEvent("cancelled")
    /\ Quiet
    /\ UNCHANGED <<max_size_arg, state, connection_open, connection_closed,
                   session, accepted>>

\* run(), the task cancelled while it waits in read_command() or
\* read_data(): CancelledError is raised at the read, handles nothing, is
\* caught in run(), which breaks out of the loop and calls close().
run_cancelled ==
    /\ pc = "loop"
    /\ close
    /\ pc' = IF raised' # "none" THEN "failed" ELSE "done"
    /\ last' = NoEvent("cancelled")
    /\ Quiet
    /\ UNCHANGED <<max_size_arg, state, connection_open, session, accepted>>

Next ==
    \/ client_connected
    \/ connection_lost
    \/ run_greet
    \/ read_command
    \/ read_command_too_long
    \/ read_data
    \/ read_data_too_long
    \/ message_received_done
    \/ message_received_failed
    \/ quit_close
    \/ run_close
    \/ run_cancelled

Spec == Init /\ [][Next]_vars


\* ------------------------------------------------- reading the last step

\* The write operations of the last step.
Writes == SelectSeq(out, LAMBDA o : o.op = "write")

\* The last step wrote a response whose final line carries this code.
Answered(code) ==
    \E i \in 1..Len(out) :
        /\ out[i].op = "write"
        /\ out[i].lines[Len(out[i].lines)].code = code

\* The last step emitted exactly one response, CRLF-terminated and flushed.
OneCompleteResponse ==
    /\ Len(Writes) = 1
    /\ Writes[1].term
    /\ \E i \in 1..(Len(out) - 1) : out[i].op = "write" /\ out[i + 1].op = "drain"

\* The last step dispatched a command line.
Dispatched(cmd) == last.op = "command" /\ last.cmd = cmd

\* The session fields as one record, comparable with reset_state and
\* init_state.
SessionNow ==
    [read_mode |-> read_mode,
     helo |-> helo,
     sender |-> sender,
     recipients |-> recipients,
     allowed_recipients |-> allowed_recipients,
     is_esmtp |-> is_esmtp,
     max_size |-> max_size,
     message_size |-> message_size,
     recipients_truncated |-> recipients_truncated]

\* ------------------------------------------------------------------ claims

\* C1: a RCPT is answered 250 (and its address appended to recipients) only
\* if a MAIL was answered 250 earlier since the last reset, and a MAIL is
\* answered 250 only if a HELO or EHLO was answered 250 earlier since the
\* last reset.
C1_RcptNeedsMailNeedsHelo ==
    /\ (Dispatched("RCPT") /\ Answered(250)) => {"MAIL", "HELO"} \subseteq accepted
    /\ (Dispatched("MAIL") /\ Answered(250)) => "HELO" \in accepted

C1_Witness ==
    /\ Dispatched("RCPT")
    /\ Answered(250)
    /\ Len(recipients) = 2
    /\ "MAIL" \in accepted

\* C2: a command line whose keyword is outside the dispatch table is
\* answered 500, nothing is raised, every session field is left unchanged
\* and the loop goes on to read the next command.
C2_UnknownKeyword500 ==
    [][(last'.op = "command" /\ last'.cmd \notin COMMANDS)
         => /\ Answered(500)'
            /\ raised' = "none"
            /\ session' = session
            /\ pc' = "loop"]_vars

\* C3: the lifecycle close performed on a session that is already closed
\* (after QUIT's close, or after connection_lost) does not raise and leaves
\* the session closed.
C3_CloseIdempotent ==
    last.op \in {"run_close", "quit_close"}
        => raised = "none" /\ connection_closed

\* C4: when the loop is about to request the next line after a dispatched
\* command of the table, exactly one complete response (CRLF-terminated and
\* flushed) has been emitted for it.
C4_OneResponsePerCommand ==
    (last.op = "command" /\ last.cmd \in COMMANDS /\ pc \in {"loop", "quit_close"})
        => OneCompleteResponse


\* The argument is FROM: followed by an address the parser accepts.
IsFromPath(arg) ==
    /\ arg # None
    /\ arg[1].t = "path"
    /\ Upper(arg[1].kw) = "FROM:"
    /\ arg[1].form # "bad"

\* C5: after a data phase that ends with the 250 reply the session is in
\* Command mode with the transaction state reset; a MAIL FROM:<addr> sent
\* next is answered 503, a HELO or EHLO with an argument sent next is
\* answered 250.
C5_AfterDataRegreet ==
    [][(last.op = "data" /\ Answered(250) /\ last'.op = "command")
         => /\ read_mode = READ_MODE_COMMAND
            /\ (last'.cmd = "MAIL" /\ IsFromPath(last'.arg)) => Answered(503)'
            /\ (last'.cmd \in {"HELO", "EHLO"} /\ TruthyArg(last'.arg))
                  => Answered(250)']_vars

\* C6: after RSET, issued in any Command-mode state, every field the
\* handlers read has the value of a freshly constructed session, so the
\* responses to whatever follows are those of a fresh connection.
C6_RsetIsFreshState ==
    Dispatched("RSET") => SessionNow = init_state(max_size_arg)

C6_Witness ==
    /\ Dispatched("RSET")
    /\ Answered(250)
    /\ pc = "loop"
    /\ max_size_arg # None

\* C7: in Data mode a DATA command was answered 354 since the last reset
\* and greeting, sender and a recipient are all set; DATA is answered 354
\* only with a non-empty recipient list.
C7_DataModeHasTransaction ==
    /\ read_mode = READ_MODE_DATA
          => /\ "DATA" \in accepted
             /\ TruthyArg(helo)
             /\ TruthyAddr(sender)
             /\ recipients # <<>>
    /\ (Dispatched("DATA") /\ Answered(354)) => recipients # <<>>

C7_Witness ==
    /\ read_mode = READ_MODE_DATA
    /\ Dispatched("DATA")
    /\ Answered(354)

\* C8: whenever sender is set, the greeting is set.
C8_SenderImpliesHelo == sender # None => helo # None

C8_Witness ==
    /\ sender # None
    /\ Dispatched("MAIL")
    /\ Answered(250)

\* The last step's response holds the capability line "SIZE n".
HasSizeLine(n) ==
    \E i \in 1..Len(Writes) :
        \E j \in 1..Len(Writes[i].lines) :
            Writes[i].lines[j].text = "SIZE" /\ Writes[i].lines[j].n = n

HasAnySizeLine ==
    \E i \in 1..Len(Writes) :
        \E j \in 1..Len(Writes[i].lines) : Writes[i].lines[j].text = "SIZE"

\* C9: a successful EHLO's reply holds a "SIZE n" line exactly when the
\* session was constructed with a maximum message size n; the reply to a
\* successful HELO is one 250 line without capability lines.
C9_SizeLineIffConfigured ==
    /\ (Dispatched("EHLO") /\ Answered(250))
          => /\ max_size_arg # None => HasSizeLine(max_size_arg[1])
             /\ max_size_arg = None => ~HasAnySizeLine
    /\ (Dispatched("HELO") /\ Answered(250))
          => Len(Writes) = 1 /\ Len(Writes[1].lines) = 1

\* The argument carries a SIZE parameter of at least m.
DeclaresSizeAtLeast(arg, m) ==
    /\ IsFromPath(arg)
    /\ \E i \in 1..Len(arg[1].params) :
          /\ Upper(arg[1].params[i].k) = "SIZE"
          /\ arg[1].params[i].eq
          /\ arg[1].params[i].num
          /\ arg[1].params[i].n >= m

\* C10: with a maximum message size M configured, a MAIL after EHLO that
\* carries SIZE=n with n >= M is answered 552 and leaves sender unset.
C10_DeclaredSizeRejected ==
    [][(/\ max_size_arg # None
        /\ is_esmtp
        /\ TruthyArg(helo)
        /\ sender = None
        /\ last'.op = "command"
        /\ last'.cmd = "MAIL"
        /\ DeclaresSizeAtLeast(last'.arg, max_size_arg[1]))
         => Answered(552)' /\ sender' = None]_vars


\* The last step was a VRFY in which the handler resolved the argument.
VrfyResolved == Dispatched("VRFY") /\ verify_called /\ TruthyAddr(verify_result)

\* C11: a VRFY whose argument the handler resolves is answered 252, and a
\* VRFY with the same argument after it is answered 252 without another
\* call of the handler's verify, whatever address the handler returned.
C11_VrfyCacheHit ==
    [][/\ VrfyResolved' => Answered(252)'
       /\ (VrfyResolved /\ Dispatched("VRFY")' /\ last'.arg = last.arg)
             => Answered(252)' /\ ~verify_called']_vars

\* The last step ran reset_state: RSET, or a data phase ended with 250.
ResetStep == Dispatched("RSET") \/ (last.op = "data" /\ Answered(250))

\* C12 as stated: a transaction reset leaves the verified addresses
\* unchanged.
C12_ResetKeepsVerified ==
    [][ResetStep' => allowed_recipients' = allowed_recipients]_vars

\* C12 as amended: a transaction reset (RSET, or the reset after a data
\* phase that ended with 250) empties the verified addresses, so nothing
\* verified before the reset is a cache hit after it.
C12_ResetClearsVerified == ResetStep => allowed_recipients = {}

C12_Witness ==
    /\ ResetStep
    /\ ever_verified
    /\ allowed_recipients = {}


\* C13: a bare HELO or EHLO (no argument) received while no greeting is set
\* is answered 501, leaves helo and is_esmtp as they were, raises nothing,
\* and the loop goes on to read the next command.
C13_BareGreeting501 ==
    [][(/\ last'.op = "command"
        /\ last'.cmd \in {"HELO", "EHLO"}
        /\ last'.arg = None
        /\ helo = None)
          => /\ Answered(501)'
             /\ helo' = helo
             /\ is_esmtp' = is_esmtp
             /\ raised' = "none"
             /\ pc' = "loop"]_vars


\* The last step ended a data phase: a block was handled, or the read of
\* the block failed on its length.
DataPhaseEnded ==
    /\ last.op \in {"data", "data_too_long"}
    /\ Answered(250) \/ Answered(522) \/ Answered(552)

\* C14: whenever a data phase has ended (250, the over-limit rejection, or
\* the length-exceeded framing error) the session is back in Command
\* mode, so the next read is a command line.
C14_DataPhaseEndsInCommandMode == DataPhaseEnded => read_mode = READ_MODE_COMMAND


\* C15: once the session is closed (close() has run for QUIT, or the
\* transport was lost) no step reads a command line or a data block, writes
\* a response, or issues another write_eof or close on the writer.
C15_NoIoAfterClosed ==
    [][connection_closed
          => /\ out' = <<>>
             /\ last'.op \notin {"command", "line_too_long", "data", "data_too_long"}]_vars


\* The last step accepted a data block.
DataAccepted == last.op = "data" /\ Answered(250)

\* C16: every accepted data block launches exactly one delivery, with the
\* transaction's sender, recipients and bytes as they were before the
\* reset; the 250 reply and the full reset happen in that same step, which
\* waits for no delivery, and nothing else launches a delivery.
C16_FireAndForget ==
    [][/\ DataAccepted'
          => /\ launched' = Some([sender |-> sender, recipients |-> recipients,
                                  data |-> last'.data])
             /\ in_flight' = in_flight + 1
             /\ SessionNow' = reset_state
             /\ raised' = "none"
       /\ in_flight' > in_flight => DataAccepted']_vars

\* The next transaction has a recipient accepted while the delivery of
\* the one before has not completed.
C16_Witness ==
    /\ in_flight > 0
    /\ Dispatched("RCPT")
    /\ Answered(250)


\* C17: a command answered 501 or 503 leaves every session field as it was
\* (helo, is_esmtp, sender, recipients, message_size, recipients_truncated,
\* read_mode, allowed_recipients, max_size).
C17_RefusalKeepsState ==
    [][(last'.op = "command" /\ (Answered(501)' \/ Answered(503)'))
          => session' = session]_vars

\* DATA refused with 503 in a transaction that has a sender to lose.
C17_Witness ==
    /\ Dispatched("DATA")
    /\ Answered(503)
    /\ sender # None


\* The steps that read from the stream: a line or a block handled, or the
\* read failing on its length.
ReadOps == {"command", "line_too_long", "data", "data_too_long"}

\* C18: a cancellation that arrives while run() waits for a command line
\* or a data block performs close() (the writer is closed and
\* connection_closed is done when the step ends) and ends the worker, and
\* once the worker has ended no command line or data block is handled.
C18_CancelCloses ==
    [][/\ last'.op = "cancelled"
          => /\ \E i \in 1..Len(out') : out'[i].op = "close"
             /\ connection_closed'
             /\ pc' \in {"done", "failed"}
       /\ pc \in {"done", "failed"} => last'.op \notin ReadOps]_vars

\* Cancelled while waiting for a data block.
C18_Witness ==
    /\ last.op = "cancelled"
    /\ read_mode = READ_MODE_DATA
    /\ connection_closed
    /\ raised = "none"


\* C19: a MAIL answered 501, 503, 552 or 555 leaves sender and
\* message_size as they were.
C19_RejectedMailKeepsSize ==
    [][(/\ Dispatched("MAIL")'
        /\ \E code \in {501, 503, 552, 555} : Answered(code)')
          => sender' = sender /\ message_size' = message_size]_vars


\* The last step wrote the partial-success reply.
SomeRecipientsOk ==
    \E i \in 1..Len(out) :
        /\ out[i].op = "write"
        /\ \E j \in 1..Len(out[i].lines) : out[i].lines[j].text = "Some recipients ok"

\* C20: recipients_truncated set implies that recipients is empty, and the
\* reply "250 Some recipients ok" is never written.
C20_TruncatedMeansNoRecipients ==
    /\ recipients_truncated => recipients = <<>>
    /\ ~SomeRecipientsOk

\* A second recipient accepted in a transaction that declared a size: the
\* channel check ran and refused none.
C20_Witness ==
    /\ Dispatched("RCPT")
    /\ Answered(250)
    /\ TruthyInt(message_size)
    /\ Len(recipients) = 2
    /\ ~recipients_truncated

====
